---- MODULE Spec2Model ----
(***************************************************************************)
(* Model of the concurrent page-harvesting core of python-scrapers:        *)
(*   core/async_scraper.py  _retry, AsyncPlaywrightScraper (_create_session,*)
(*                          _worker, _load_page), AsyncEcommPlaywrightScraper*)
(*                          (fetch_listing, fetch_products, start)          *)
(*   adidas_id.py           AdidasScraper._listing_parser (pagination walk) *)
(*                                                                         *)
(* asyncio is single-threaded and cooperative: every action below is the   *)
(* code that runs between two await points of one task.  Time is not       *)
(* modelled: a backoff sleep is recorded by its duration, the jitter sleep *)
(* (1 to 3 s, drawn at random) only by the tab being in it.                *)
(***************************************************************************)
EXTENDS Integers, Sequences, FiniteSets, TLC

\* ---------------------------------------------------------------- bounds
MaxUrls == 3            \* largest number of product addresses a listing yields
MaxWorkerLimit == 2     \* largest configured WORKER_LIMIT explored
MaxRetriesBound == 3    \* largest configured MAX_RETRIES explored
MaxDelayFactor == 2     \* largest configured RETRY_DELAY_FACTOR explored
MaxRequests == 2        \* largest number of requests a route handler is given
MaxLoad == 7            \* largest sum of the listing's length, WORKER_LIMIT,
                        \* MAX_RETRIES and RETRY_DELAY_FACTOR explored

\* ---------------------------------------------------------------- values
START_URL == 0                       \* the seed address given to start()
WorkerIds == 1..MaxWorkerLimit       \* tab_id values that can ever be used

\* Python values that flow through _load_page: None, an empty container, or
\* a non-empty container.  val is the list of links (listing parser) or the
\* one-entry stand-in of the product mapping (product parser).
None == [present |-> FALSE, val |-> <<>>]
Empty == [present |-> TRUE, val |-> <<>>]
Data(v) == [present |-> TRUE, val |-> v]

\* A test for a value being there, empty or not: `if result is not None:`
IsNotNone(r) == r.present

\* Python truthiness of such a value: `if result:`
Truthy(r) == r.present /\ r.val # <<>>

\* The three failures an attempt of _load_page can end with.
\* Resource types of the requests a page sends out
ResourceTypes == {"document", "image", "stylesheet"}

Failures == {"NavigationError", "ExtractionError", "TimeoutError"}

NoJob == <<>>

\* A worker task that has not been created.
NoWorker == [pc |-> "none", job |-> NoJob, attempt |-> 0, delay |-> 0,
             waited |-> 0, at |-> 0, product_urls |-> <<>>]

\* ---------------------------------------------------------------- listing source
\* A listing source is a chain of pages.  A page has its product links and
\* a Next control: visible or not, with the page its href leads to (0 when
\* the control is missing or carries no href).
Page(links, visible, href) ==
    [links |-> links, visible |-> visible, href |-> href]

Range(a, b) == [i \in 1..(b - a + 1) |-> a + i - 1]

Sites ==
    {<<Page(Range(1, n), FALSE, 0)>> : n \in 0..MaxUrls}
    \cup {<<Page(<<1>>, TRUE, 2), Page(<<2>>, FALSE, 0)>>,
          <<Page(<<1>>, FALSE, 2), Page(<<2>>, FALSE, 0)>>,
          <<Page(<<1>>, TRUE, 0), Page(<<2>>, FALSE, 0)>>,
          <<Page(<<1>>, TRUE, 2), Page(<<>>, TRUE, 3), Page(<<2>>, FALSE, 0)>>}

\* A walk that follows the Next control's href whether it is visible or not.
HrefRegardless(page) == page.href

\* _listing_parser.get_next_page_url: the href of the Next control when it
\* is visible, else ""
get_next_page_url(page) == IF page.visible THEN page.href ELSE 0

\* adidas_id.py _listing_parser as a function of the listing source: collect
\* the links of the current page, go to the next page while
\* get_next_page_url gives one, return the concatenation.
RECURSIVE Walk(_, _)
Walk(chain, i) ==
    IF i \notin DOMAIN chain THEN <<>>
    ELSE IF get_next_page_url(chain[i]) # 0
         THEN chain[i].links \o Walk(chain, get_next_page_url(chain[i]))
         ELSE chain[i].links

_listing_parser(chain) == Walk(chain, 1)

\* ---------------------------------------------------------------- state
VARIABLES
    WORKER_LIMIT,        \* config: pool size and queue capacity
    MAX_RETRIES,         \* config: attempts of one retry-wrapped load
    RETRY_DELAY_FACTOR,  \* config: backoff factor
    site,                \* the listing source behind START_URL
    EXCLUDED_RES,        \* config: resource types whose requests are aborted
    requests,            \* resource types of the requests the route handler got
    decisions,           \* what the route handler did with each, in order
    ppc,                 \* position of start(): start, listing, products, done,
                         \* or aborted once an exception has left start()
    listings,            \* self.listings
    products,            \* self.products
    result,              \* fetch_products: result
    remaining_retries,   \* fetch_products: remaining_retries
    rounds,              \* per finished Stage B round: addresses that succeeded / failed
    stageA,              \* the data of the Stage A Outcome, once fetch_listing has read it
    earlier,             \* self.listings as an earlier call of fetch_listing left it
    sessions,            \* number of _create_session calls per parser
    spc,                 \* position of _create_session
    parser,              \* _create_session: parser
    urls,                \* _create_session: urls
    session_result,      \* _create_session: session_result
    queue,               \* asyncio.Queue contents
    unfinished,          \* asyncio.Queue unfinished-task count (put +1, task_done -1)
    next_put,            \* index of the next url the enqueue loop puts
    browser,             \* none, open, closed
    raised,              \* an exception is propagating out of _create_session
    worker,              \* the tabs: one record per tab_id
    dequeues             \* per job index: how many times queue.get() returned it

vars == <<WORKER_LIMIT, MAX_RETRIES, RETRY_DELAY_FACTOR, site, EXCLUDED_RES,
          requests, decisions, ppc, listings, products, result,
          remaining_retries, rounds, stageA, earlier, sessions, spc, parser,
          urls, session_result, queue, unfinished, next_put, browser, raised,
          worker, dequeues>>

config == <<WORKER_LIMIT, MAX_RETRIES, RETRY_DELAY_FACTOR, site, EXCLUDED_RES>>
traffic == <<requests, decisions>>
rest == <<listings, products, result, remaining_retries, rounds, stageA,
          earlier, sessions>>
pipeline == <<ppc, rest>>

\* The scraper object after construction, before start() is called
Constructed ==
    /\ requests = <<>>
    /\ decisions = <<>>
    /\ earlier = None
    /\ ppc = "start"
    /\ listings = Empty
    /\ products = <<>>
    /\ result = <<>>
    /\ remaining_retries = 0
    /\ rounds = <<>>
    /\ stageA = None
    /\ sessions = [p \in {"_listing_parser", "_product_parser"} |-> 0]
    /\ spc = "none"
    /\ parser = "none"
    /\ urls = <<>>
    /\ session_result = <<>>
    /\ queue = <<>>
    /\ unfinished = 0
    /\ next_put = 1
    /\ browser = "none"
    /\ raised = FALSE
    /\ worker = [w \in WorkerIds |-> NoWorker]
    /\ dequeues = [i \in 1..MaxUrls |-> 0]

Init ==
    /\ WORKER_LIMIT \in 1..MaxWorkerLimit
    /\ MAX_RETRIES \in 1..MaxRetriesBound
    /\ RETRY_DELAY_FACTOR \in 1..MaxDelayFactor
    /\ site \in Sites
    /\ Len(_listing_parser(site)) + WORKER_LIMIT + MAX_RETRIES
          + RETRY_DELAY_FACTOR <= MaxLoad
    /\ EXCLUDED_RES = {"image"}
    /\ Constructed

\* ---------------------------------------------------------------- helpers
\* A pool that ignores the number of addresses.
TabsAlwaysLimit(n) == WORKER_LIMIT

\* _create_session: new_tabs_count
new_tabs_count(n) == IF n < WORKER_LIMIT THEN n ELSE WORKER_LIMIT

\* A loop condition that is off by one.
RetryLoopInclusive(attempt) == attempt <= MAX_RETRIES

\* _retry wrapper: the loop condition `while attempt < max_retries`
RetryLoop(attempt) == attempt < MAX_RETRIES

\* A delay that does not grow with the attempt.
DelayFlat(attempt) == RETRY_DELAY_FACTOR

\* A delay computed from the number of the previous attempt.
DelayPrevious(attempt) == (attempt - 1) * RETRY_DELAY_FACTOR

\* _retry wrapper: delay_duration = attempt * RETRY_DELAY_FACTOR
delay_duration(attempt) == attempt * RETRY_DELAY_FACTOR

\* A handler that lets the extractor's timeout through.
CaughtButTimeout(kind) == kind \in Failures \ {"TimeoutError"}

\* _retry wrapper: `except Exception` catches Playwright's navigation error,
\* whatever the parser raises, and asyncio.TimeoutError alike.
Caught(kind) == kind \in Failures

\* A handler that lets every request through.
ContinueAll(resource_type) == "continue"

\* _handle_requests: abort a request of an excluded resource type, continue
\* any other
_handle_requests(resource_type) ==
    IF resource_type \in EXCLUDED_RES THEN "abort" ELSE "continue"

\* A queue created without a capacity.
QueueUnbounded(q) == TRUE

\* asyncio.Queue(WORKER_LIMIT): put proceeds while the queue is not full
NotFull(q) == Len(q) < WORKER_LIMIT

\* A session that does not wait for the drain at all.
NoDrainWait(q, n) == TRUE

\* A session that waits for the queue to be empty, not for the
\* acknowledgements.
QueueEmpty(q, n) == q = <<>>

\* queue.join(): returns when the count of unfinished tasks is zero
AllTasksDone(q, n) == n = 0

\* A tab that never acknowledges its Job.
TaskDoneForgotten(n) == n

\* queue.task_done(): one unfinished task fewer
task_done(n) == n - 1

\* A get that leaves the Job in the queue.
QueuePeek(q) == q

\* asyncio.Queue.get(): the queue after the leftmost Job has been handed out
QueueGet(q) == Tail(q)

\* _worker: the Outcome appended for a Job
Outcome(url, r) == [url |-> url, is_successful |-> Truthy(r), data |-> r]

\* What the session's parser returns for a page when it returns at all.  The
\* listing parser returns the walk over the listing source; the product
\* parser is abstract in the core: a non-empty mapping or an empty one.
AsResult(l) == IF l = <<>> THEN Empty ELSE Data(l)

\* A parser that keeps the links of its earlier, abandoned calls.
KeptProductUrls(old) == old

\* _listing_parser: `product_urls = []` at the start of every call
NewProductUrls(old) == <<>>

\* What the session's parser returns, if it returns now, to the tab record
\* rec that is loading.  The listing parser returns when the page it is on
\* gives no next page: the links collected so far and this page's.  The
\* product parser is abstract in the core: a non-empty mapping or an empty
\* one.
ParserReturns(p, rec) ==
    IF p = "_listing_parser"
    THEN IF get_next_page_url(site[rec.at]) = 0
         THEN {AsResult(rec.product_urls \o site[rec.at].links)}
         ELSE {}
    ELSE {Data(<<rec.job[3]>>), Empty}

\* A session body without try/finally: the exception leaves at once.
ExitWithoutFinally == "closed"

\* _create_session: where control goes when the try body raises
ExceptionExit == "finally"

IsSuccessful(item) == item.is_successful = TRUE

\* A filter that carries every address of the round into the next.
AnyItem(item) == TRUE

\* fetch_products: the items whose urls make the next round
IsFailed(item) == item.is_successful = FALSE

UrlsOf(s) == [i \in 1..Len(s) |-> s[i].url]

\* The session's result list stored in place of its first Outcome's data.
ListingsWholeResult(res) == Data(UrlsOf(res))

\* fetch_listing: self.listings = result[0]["data"]
ListingsFrom(res) == res[1].data

\* start: `if self.listings:`
RunStageB(l) == Truthy(l)

\* A last round whose Outcomes are not retained.
RetainNothing(res, attempt) == res

\* fetch_products: `if remaining_retries == 0: result.extend(attempt)`
RetainFinal(res, attempt) == res \o attempt

\* ---------------------------------------------------------------- _create_session
\* Lines 79-85: fresh result list and queue, then the browser launch is awaited.
CreateSession(us, p) ==
    /\ sessions' = [sessions EXCEPT ![p] = @ + 1]
    /\ spc' = "launch"
    /\ parser' = p
    /\ urls' = us
    /\ session_result' = <<>>
    /\ queue' = <<>>
    /\ unfinished' = 0
    /\ next_put' = 1
    /\ browser' = "none"
    /\ raised' = FALSE
    /\ worker' = [w \in WorkerIds |-> NoWorker]
    /\ dequeues' = [i \in 1..MaxUrls |-> 0]

session == <<spc, parser, urls, session_result, queue, unfinished, next_put,
             browser, raised, worker, dequeues>>

\* pw.chromium.launch returns a browser
Launch ==
    /\ spc = "launch"
    /\ browser' = "open"
    /\ spc' = "new_context"
    /\ UNCHANGED <<config, traffic, pipeline, parser, urls, session_result, queue,
                   unfinished, next_put, raised, worker, dequeues>>

\* pw.chromium.launch raises: the try block is never entered, the exception
\* leaves _create_session and, uncaught by its callers, start()
LaunchFail ==
    /\ spc = "launch"
    /\ raised' = TRUE
    /\ spc' = "closed"
    /\ ppc' = "aborted"
    /\ UNCHANGED <<config, traffic, rest, parser, urls, session_result, queue,
                   unfinished, next_put, browser, worker, dequeues>>

\* browser.new_context returns
NewContext ==
    /\ spc = "new_context"
    /\ spc' = "route"
    /\ UNCHANGED <<config, traffic, pipeline, parser, urls, session_result, queue,
                   unfinished, next_put, browser, raised, worker, dequeues>>

\* context.route returns; the tabs are created; the enqueue loop is entered
Route ==
    /\ spc = "route"
    /\ worker' = [w \in WorkerIds |->
                    IF w <= new_tabs_count(Len(urls))
                    THEN [NoWorker EXCEPT !.pc = "start"]
                    ELSE NoWorker]
    /\ spc' = IF urls = <<>> THEN "join" ELSE "put"
    /\ UNCHANGED <<config, traffic, pipeline, parser, urls, session_result, queue,
                   unfinished, next_put, browser, raised, dequeues>>

\* queue.put((index, len(urls), url)): suspended while the queue is full
Put ==
    /\ spc = "put"
    /\ NotFull(queue)
    /\ queue' = Append(queue, <<next_put, Len(urls), urls[next_put]>>)
    /\ unfinished' = unfinished + 1
    /\ next_put' = next_put + 1
    /\ spc' = IF next_put = Len(urls) THEN "join" ELSE "put"
    /\ UNCHANGED <<config, traffic, pipeline, parser, urls, session_result, browser,
                   raised, worker, dequeues>>

\* queue.join() returns once every Job put has been acknowledged; every tab
\* is cancelled (a finished task ignores cancel()); the finally block starts.
Join ==
    /\ spc = "join"
    /\ AllTasksDone(queue, unfinished)
    /\ worker' = [w \in WorkerIds |->
                    IF worker[w].pc \in {"none", "dead"} THEN worker[w]
                    ELSE [worker[w] EXCEPT !.pc = "cancelled"]]
    /\ spc' = "finally"
    /\ UNCHANGED <<config, traffic, pipeline, parser, urls, session_result, queue,
                   unfinished, next_put, browser, raised, dequeues>>

\* An await of the try body raises: new_context or route fails, or the task
\* running start() is cancelled while suspended in put or join.
SessionRaise ==
    /\ spc \in {"new_context", "route", "put", "join"}
    /\ raised' = TRUE
    /\ spc' = ExceptionExit
    /\ UNCHANGED <<config, traffic, pipeline, parser, urls, session_result, queue,
                   unfinished, next_put, browser, worker, dequeues>>

\* finally: browser.close(); then the function is about to return, or the
\* exception leaves it and, uncaught by its callers, start()
Close ==
    /\ spc = "finally"
    /\ browser' = "closed"
    /\ spc' = "closed"
    /\ ppc' = IF raised THEN "aborted" ELSE ppc
    /\ UNCHANGED <<config, traffic, rest, parser, urls, session_result, queue,
                   unfinished, next_put, raised, worker, dequeues>>

\* ---------------------------------------------------------------- _worker
\* The tabs run while _create_session is suspended in its enqueue loop or in
\* queue.join().  After the drain they are cancelled before any of them runs
\* again; after an exception the run is over and they are not followed.
Running == spc \in {"put", "join"}

JobUrl(w) == worker[w].job[3]

\* context.new_page() returns: the tab enters its loop and waits on the queue
WorkerStart(w) ==
    /\ Running
    /\ worker[w].pc = "start"
    /\ worker' = [worker EXCEPT ![w].pc = "get"]
    /\ UNCHANGED <<config, traffic, pipeline, spc, parser, urls, session_result, queue,
                   unfinished, next_put, browser, raised, dequeues>>

\* context.new_page() raises outside the retry-wrapped region: the task ends
WorkerCrash(w) ==
    /\ Running
    /\ worker[w].pc = "start"
    /\ worker' = [worker EXCEPT ![w].pc = "dead"]
    /\ UNCHANGED <<config, traffic, pipeline, spc, parser, urls, session_result, queue,
                   unfinished, next_put, browser, raised, dequeues>>

\* The wrapper has returned to the tab: its locals are gone, the tab holds
\* the Job through its jitter sleep.
Sleeping(rec) == [NoWorker EXCEPT !.pc = "sleep", !.job = rec.job]

\* The _retry wrapper at its loop head, for the tab record rec holding a Job:
\* either the next attempt is started (_load_page navigates to the Job's
\* address, which for Stage A is the first page of the listing source, and
\* calls the parser), or the loop ends, the wrapper returns None and the tab
\* appends the Outcome and starts its jitter sleep.
LoopHead(w, rec) ==
    IF RetryLoop(rec.attempt)
    THEN /\ worker' = [worker EXCEPT ![w] =
                          [rec EXCEPT !.attempt = @ + 1, !.pc = "load",
                              !.at = IF parser = "_listing_parser" THEN 1 ELSE 0,
                              !.product_urls = NewProductUrls(@)]]
         /\ UNCHANGED session_result
    ELSE /\ worker' = [worker EXCEPT ![w] = Sleeping(rec)]
         /\ session_result' = Append(session_result, Outcome(rec.job[3], None))

\* queue.get() returns a Job; _load_page is called: attempt = 0, loop head
Get(w) ==
    /\ Running
    /\ worker[w].pc = "get"
    /\ queue # <<>>
    /\ queue' = QueueGet(queue)
    /\ dequeues' = [dequeues EXCEPT ![Head(queue)[1]] = @ + 1]
    /\ LoopHead(w, [worker[w] EXCEPT !.job = Head(queue), !.attempt = 0])
    /\ UNCHANGED <<config, traffic, pipeline, spc, parser, urls, unfinished, next_put,
                   browser, raised>>

\* An attempt of _load_page returns the parser's result: the wrapper returns
\* it, the tab appends the Outcome and starts its jitter sleep.
AttemptReturn(w) ==
    /\ Running
    /\ worker[w].pc = "load"
    /\ \E r \in ParserReturns(parser, worker[w]) :
          session_result' = Append(session_result, Outcome(JobUrl(w), r))
    /\ worker' = [worker EXCEPT ![w] = Sleeping(worker[w])]
    /\ UNCHANGED <<config, traffic, pipeline, spc, parser, urls, queue, unfinished,
                   next_put, browser, raised, dequeues>>

\* The listing parser has collected the links of the page it is on and goes
\* to the page the Next control gives.
FollowNext(w) ==
    /\ Running
    /\ worker[w].pc = "load"
    /\ parser = "_listing_parser"
    /\ get_next_page_url(site[worker[w].at]) # 0
    /\ worker' = [worker EXCEPT ![w] =
          [@ EXCEPT !.product_urls = @ \o site[worker[w].at].links,
                    !.at = get_next_page_url(site[worker[w].at])]]
    /\ UNCHANGED <<config, traffic, pipeline, spc, parser, urls, session_result, queue,
                   unfinished, next_put, browser, raised, dequeues>>

\* An attempt of _load_page raises (page.goto fails, the parser raises, or
\* wait_for times out): a caught error starts the backoff sleep; an error
\* that is not caught leaves _load_page and ends the tab's task.
AttemptRaise(w) ==
    /\ Running
    /\ worker[w].pc = "load"
    /\ \E kind \in Failures :
          worker' = [worker EXCEPT ![w] =
              IF Caught(kind)
              THEN [@ EXCEPT !.pc = "backoff",
                             !.delay = delay_duration(worker[w].attempt),
                             !.waited = @ + delay_duration(worker[w].attempt)]
              ELSE [@ EXCEPT !.pc = "dead"]]
    /\ UNCHANGED <<config, traffic, pipeline, spc, parser, urls, session_result, queue,
                   unfinished, next_put, browser, raised, dequeues>>

\* asyncio.sleep(delay_duration) is over: back to the loop head
BackoffDone(w) ==
    /\ Running
    /\ worker[w].pc = "backoff"
    /\ LoopHead(w, worker[w])
    /\ UNCHANGED <<config, traffic, pipeline, spc, parser, urls, queue, unfinished,
                   next_put, browser, raised, dequeues>>

\* The jitter sleep is over: queue.task_done(), then back to queue.get()
TaskDone(w) ==
    /\ Running
    /\ worker[w].pc = "sleep"
    /\ unfinished' = task_done(unfinished)
    /\ worker' = [worker EXCEPT ![w] = [NoWorker EXCEPT !.pc = "get"]]
    /\ UNCHANGED <<config, traffic, pipeline, spc, parser, urls, session_result, queue,
                   next_put, browser, raised, dequeues>>

\* ---------------------------------------------------------------- pipeline
\* fetch_products, from its loop condition on, with result res, rem rounds
\* left and the address list us: the next round's session is created, or the
\* loop is left and self.products is set; start() then returns.
ProductsLoop(res, rem, us) ==
    IF rem # 0 /\ us # <<>>
    THEN /\ remaining_retries' = rem - 1
         /\ result' = res
         /\ ppc' = "products"
         /\ CreateSession(us, "_product_parser")
         /\ UNCHANGED products
    ELSE /\ products' = res
         /\ result' = res
         /\ ppc' = "done"
         /\ UNCHANGED <<remaining_retries, sessions, session>>

\* start(): fetch_listing([self.start_url]) creates the Stage A session
Start ==
    /\ ppc = "start"
    /\ ppc' = "listing"
    /\ CreateSession(<<START_URL>>, "_listing_parser")
    /\ UNCHANGED <<config, traffic, listings, products, result,
                   remaining_retries, rounds, stageA, earlier>>

\* The Stage A session has returned: fetch_listing reads the listings;
\* start() calls fetch_products when they are non-empty, else returns.
ListingReturn ==
    /\ ppc = "listing"
    /\ spc = "closed"
    /\ ~raised
    /\ listings' = IF session_result # <<>> THEN ListingsFrom(session_result)
                   ELSE listings
    /\ stageA' = IF session_result # <<>> THEN session_result[1].data ELSE None
    /\ IF RunStageB(listings')
       THEN ProductsLoop(<<>>, 3, listings'.val)
       ELSE /\ ppc' = "done"
            /\ UNCHANGED <<products, result, remaining_retries, sessions,
                           session>>
    /\ UNCHANGED <<config, traffic, rounds, earlier>>

\* A Stage B session has returned: successes are kept, failures become the
\* next address list; the loop breaks, retains the last round, or goes on.
ProductsReturn ==
    /\ ppc = "products"
    /\ spc = "closed"
    /\ ~raised
    /\ LET attempt == session_result
           kept == result \o SelectSeq(attempt, IsSuccessful)
           failed == UrlsOf(SelectSeq(attempt, IsFailed))
       IN  /\ rounds' = Append(rounds,
                 [ok |-> {attempt[i].url : i \in {j \in DOMAIN attempt :
                                                     attempt[j].is_successful}},
                  bad |-> {attempt[i].url : i \in {j \in DOMAIN attempt :
                                                     ~attempt[j].is_successful}}])
           /\ IF failed = <<>>
              THEN ProductsLoop(kept, 0, failed)
              ELSE IF remaining_retries = 0
                   THEN ProductsLoop(RetainFinal(kept, attempt), 0, failed)
                   ELSE ProductsLoop(kept, remaining_retries, failed)
    /\ UNCHANGED <<config, traffic, listings, stageA, earlier>>

\* ---------------------------------------------------------------- specification
Next ==
    \/ Start
    \/ Launch
    \/ LaunchFail
    \/ NewContext
    \/ Route
    \/ Put
    \/ Join
    \/ SessionRaise
    \/ Close
    \/ \E w \in WorkerIds : WorkerStart(w)
    \/ \E w \in WorkerIds : WorkerCrash(w)
    \/ \E w \in WorkerIds : Get(w)
    \/ \E w \in WorkerIds : FollowNext(w)
    \/ \E w \in WorkerIds : AttemptReturn(w)
    \/ \E w \in WorkerIds : AttemptRaise(w)
    \/ \E w \in WorkerIds : BackoffDone(w)
    \/ \E w \in WorkerIds : TaskDone(w)
    \/ ListingReturn
    \/ ProductsReturn

Spec == Init /\ [][Next]_vars

\* ------------------------------------------------- fair scheduling
\* The steps of _create_session that the event loop runs once they can run.
\* Exceptions (LaunchFail, SessionRaise) are the environment's doing.
SessionStep == Launch \/ NewContext \/ Route \/ Put \/ Join \/ Close

\* The steps of tab w: every await of its body terminates, new_page, the
\* navigation and the parser by returning or raising, the sleeps by ending.
WorkerStep(w) ==
    \/ WorkerStart(w)
    \/ WorkerCrash(w)
    \/ Get(w)
    \/ FollowNext(w)
    \/ AttemptReturn(w)
    \/ AttemptRaise(w)
    \/ BackoffDone(w)
    \/ TaskDone(w)

\* start() goes on when the session it awaits has returned.
PipelineStep == Start \/ ListingReturn \/ ProductsReturn

\* Progress does not depend on how long a backoff lasts: the configurations
\* with the smallest factor, under a budget smaller by two.
InitFair ==
    /\ Init
    /\ RETRY_DELAY_FACTOR = 1
    /\ Len(_listing_parser(site)) + WORKER_LIMIT + MAX_RETRIES + 2 <= MaxLoad

\* asyncio runs every task that is ready: no ready task waits forever.
FairSpec ==
    /\ InitFair
    /\ [][Next]_vars
    /\ WF_vars(SessionStep)
    /\ WF_vars(PipelineStep)
    /\ \A w \in WorkerIds : WF_vars(WorkerStep(w))

\* ------------------------------------------------- requests filtered
\* A page that is loading sends a request of resource type t; the route
\* installed on the context hands it to _handle_requests.
Request(t) ==
    /\ Running
    /\ \E w \in WorkerIds : worker[w].pc = "load"
    /\ Len(requests) < MaxRequests
    /\ requests' = Append(requests, t)
    /\ decisions' = Append(decisions, _handle_requests(t))
    /\ UNCHANGED <<config, pipeline, session>>

\* One tab, one attempt, a listing of two pages, any set of excluded types
InitFilter ==
    /\ WORKER_LIMIT = 1
    /\ MAX_RETRIES = 1
    /\ RETRY_DELAY_FACTOR = 1
    /\ site = <<Page(<<1>>, TRUE, 2), Page(<<2>>, FALSE, 0)>>
    /\ EXCLUDED_RES \in SUBSET ResourceTypes
    /\ Constructed

NextFilter ==
    \/ Next
    \/ \E t \in ResourceTypes : Request(t)

SpecFilter == InitFilter /\ [][NextFilter]_vars

\* ------------------------------------------------- Stage A run twice
\* fetch_listing([self.start_url]) has read the listings of its session and
\* is called once more on the same scraper, the listing source unchanged.
FetchListingAgain ==
    /\ ppc = "listing"
    /\ spc = "closed"
    /\ ~raised
    /\ sessions["_listing_parser"] = 1
    /\ listings' = IF session_result # <<>> THEN ListingsFrom(session_result)
                   ELSE listings
    /\ earlier' = listings'
    /\ stageA' = IF session_result # <<>> THEN session_result[1].data ELSE None
    /\ ppc' = "listing"
    /\ CreateSession(<<START_URL>>, "_listing_parser")
    /\ UNCHANGED <<config, traffic, products, result, remaining_retries,
                   rounds>>

\* The second call of fetch_listing has read the listings of its session.
FetchListingLast ==
    /\ ppc = "listing"
    /\ spc = "closed"
    /\ ~raised
    /\ sessions["_listing_parser"] = 2
    /\ listings' = IF session_result # <<>> THEN ListingsFrom(session_result)
                   ELSE listings
    /\ stageA' = IF session_result # <<>> THEN session_result[1].data ELSE None
    /\ ppc' = "done"
    /\ UNCHANGED <<config, traffic, products, result, remaining_retries,
                   rounds, earlier, sessions, session>>

NextTwice ==
    \/ Start
    \/ Launch
    \/ LaunchFail
    \/ NewContext
    \/ Route
    \/ Put
    \/ Join
    \/ SessionRaise
    \/ Close
    \/ \E w \in WorkerIds : WorkerStart(w)
    \/ \E w \in WorkerIds : WorkerCrash(w)
    \/ \E w \in WorkerIds : Get(w)
    \/ \E w \in WorkerIds : FollowNext(w)
    \/ \E w \in WorkerIds : AttemptReturn(w)
    \/ \E w \in WorkerIds : AttemptRaise(w)
    \/ \E w \in WorkerIds : BackoffDone(w)
    \/ \E w \in WorkerIds : TaskDone(w)
    \/ FetchListingAgain
    \/ FetchListingLast

SpecTwice == Init /\ [][NextTwice]_vars

\* ---------------------------------------------------------------- properties
Min(a, b) == IF a < b THEN a ELSE b

RECURSIVE SumTo(_)
SumTo(n) == IF n <= 0 THEN 0 ELSE n + SumTo(n - 1)

\* Number of Outcomes of s recorded for address u
Occ(s, u) == Cardinality({i \in DOMAIN s : s[i].url = u})

Failed(s) == {i \in DOMAIN s : ~s[i].is_successful}

\* _create_session has returned its result list (no exception)
Returned == spc = "closed" /\ ~raised

Holding(w) == worker[w].job # NoJob

\* C1: a session that returns holds exactly one Outcome per submitted
\* address and none else, and at no time has a Job been handed out by the
\* queue more than once.
C1_OneOutcomePerAddress ==
    /\ \A i \in DOMAIN dequeues : dequeues[i] <= 1
    /\ Returned =>
          /\ Len(session_result) = Len(urls)
          /\ \A i \in DOMAIN urls : Occ(session_result, urls[i]) = 1
          /\ \A i \in DOMAIN urls : dequeues[i] = 1

\* Two tabs served three addresses and finished them out of order.
C1_Witness ==
    /\ Returned
    /\ WORKER_LIMIT = 2
    /\ Len(urls) = 3
    /\ session_result[1].url # urls[1]

\* C2: when fetch_products has finished, Products holds exactly one Outcome
\* per input address.
C2_OneProductPerAddress ==
    (ppc = "done" /\ sessions["_product_parser"] > 0) =>
        /\ Len(products) = Len(listings.val)
        /\ \A i \in DOMAIN listings.val : Occ(products, listings.val[i]) = 1

\* The run of the example: three addresses, two succeed in round 1, the
\* third fails in rounds 1, 2 and 3.
C3_Scenario(n) ==
    /\ Len(listings.val) = 3
    /\ Len(rounds) >= n
    /\ Cardinality(rounds[1].ok) = 2
    /\ \A r \in 2..n : rounds[r].ok = {}

\* C3: in that run round 1 records 2 successes and carries 1 address, round
\* 2 carries the same address, round 3 is the last, and Products has length
\* 3 with exactly 1 Outcome marked unsuccessful.
C3_OneAlwaysFails ==
    /\ (C3_Scenario(1) /\ Len(rounds) = 1) =>
          /\ ppc \in {"products", "aborted"}
          /\ Len(result) = 2
          /\ Len(urls) = 1
          /\ {urls[1]} = rounds[1].bad
          /\ remaining_retries = 1
    /\ (C3_Scenario(2) /\ Len(rounds) = 2) =>
          /\ ppc \in {"products", "aborted"}
          /\ Len(result) = 2
          /\ Len(urls) = 1
          /\ {urls[1]} = rounds[2].bad
          /\ rounds[2].bad = rounds[1].bad
          /\ remaining_retries = 0
    /\ C3_Scenario(3) =>
          /\ Len(rounds) = 3
          /\ ppc = "done"
          /\ Len(products) = 3
          /\ Cardinality(Failed(products)) = 1
          /\ \A i \in DOMAIN listings.val : Occ(products, listings.val[i]) = 1

C3_Witness == C3_Scenario(3) /\ ppc = "done"

\* C4: the tabs spawned in a session number min(|urls|, WORKER_LIMIT), and
\* the Stage A session spawns exactly one.
C4_PoolSize ==
    LET tabs == Cardinality({w \in WorkerIds : worker[w].pc # "none"})
    IN  /\ spc \in {"put", "join"} =>
              /\ tabs = Min(Len(urls), WORKER_LIMIT)
              /\ parser = "_listing_parser" => tabs = 1
        /\ spc \in {"launch", "new_context", "route"} => tabs = 0

\* A pool smaller than WORKER_LIMIT: Stage A under WORKER_LIMIT = 2.
C4_Witness ==
    /\ spc = "join"
    /\ parser = "_listing_parser"
    /\ WORKER_LIMIT = 2
    /\ worker[1].pc = "load"
    /\ worker[2].pc = "none"

\* C5 as stated: the wait that immediately precedes attempt k (there is one
\* for k >= 2) equals k * RETRY_DELAY_FACTOR.
C5_WaitBeforeAttempt ==
    \A w \in WorkerIds :
        (worker[w].pc = "load" /\ worker[w].attempt >= 2) =>
            worker[w].delay = worker[w].attempt * RETRY_DELAY_FACTOR

\* C5 amended: the wait that follows the k-th failed attempt equals
\* k * RETRY_DELAY_FACTOR; so nothing is waited before attempt 1 and
\* (k - 1) * RETRY_DELAY_FACTOR immediately before attempt k >= 2.
C5_WaitAfterAttempt ==
    \A w \in WorkerIds :
        /\ worker[w].pc = "backoff" =>
              worker[w].delay = worker[w].attempt * RETRY_DELAY_FACTOR
        /\ worker[w].pc = "load" =>
              worker[w].delay = (worker[w].attempt - 1) * RETRY_DELAY_FACTOR

C5_Witness ==
    \E w \in WorkerIds :
        /\ worker[w].pc = "load"
        /\ worker[w].attempt = 3
        /\ RETRY_DELAY_FACTOR = 2
        /\ worker[w].delay = 4

\* The last Outcome appended by this step is for tab w's Job and carries r
Appended(w, r) ==
    session_result' = Append(session_result, Outcome(worker[w].job[3], r))

\* C6: one load invokes the operation at most MAX_RETRIES times; an attempt
\* that returns ends the load with what it returned; a failed attempt is
\* followed by another one exactly when fewer than MAX_RETRIES were made;
\* after MAX_RETRIES failures the load ends with the absent result and the
\* tab goes on (nothing is raised).
C6_AttemptsBounded ==
    [][\A w \in WorkerIds :
          /\ worker[w].attempt <= MAX_RETRIES
          /\ (worker[w].pc = "load" /\ worker'[w].pc # "load") =>
                \/ /\ worker'[w].pc = "backoff"
                   /\ worker'[w].attempt = worker[w].attempt
                   /\ session_result' = session_result
                \/ /\ worker'[w].pc = "sleep"
                   /\ \E r \in {Empty} \cup {Data(v) : v \in {<<JobUrl(w)>>,
                                               _listing_parser(site)}} :
                         Appended(w, r)
          /\ (worker[w].pc = "backoff" /\ worker'[w] # worker[w]) =>
                IF worker[w].attempt < MAX_RETRIES
                THEN /\ worker'[w].pc = "load"
                     /\ worker'[w].attempt = worker[w].attempt + 1
                     /\ session_result' = session_result
                ELSE /\ worker[w].attempt = MAX_RETRIES
                     /\ worker'[w].pc = "sleep"
                     /\ Appended(w, None)
      ]_vars

\* A tab sleeps after a load that gave up: the absent result is recorded.
C6_Witness ==
    \E w \in WorkerIds :
        /\ worker[w].pc = "sleep"
        /\ MAX_RETRIES = 3
        /\ session_result # <<>>
        /\ session_result[Len(session_result)] = Outcome(JobUrl(w), None)

\* C7: when every attempt has failed, the wait after the last failure
\* included, the load has waited RETRY_DELAY_FACTOR * (1 + ... + MAX_RETRIES)
\* in all (6 for MAX_RETRIES = 3, RETRY_DELAY_FACTOR = 1), and the Outcome
\* then recorded for the Job is marked unsuccessful.
C7_CumulativeBackoff ==
    [][\A w \in WorkerIds :
          (worker[w].pc = "backoff" /\ worker[w].attempt = MAX_RETRIES) =>
              /\ worker[w].waited = RETRY_DELAY_FACTOR * SumTo(MAX_RETRIES)
              /\ (MAX_RETRIES = 3 /\ RETRY_DELAY_FACTOR = 1) =>
                    worker[w].waited = 6
              /\ worker'[w] # worker[w] =>
                    /\ Len(session_result') = Len(session_result) + 1
                    /\ session_result'[Len(session_result')].url = JobUrl(w)
                    /\ ~session_result'[Len(session_result')].is_successful
      ]_vars

C7_Witness ==
    \E w \in WorkerIds :
        /\ MAX_RETRIES = 3
        /\ RETRY_DELAY_FACTOR = 1
        /\ worker[w].pc = "backoff"
        /\ worker[w].attempt = 3
        /\ worker[w].waited = 6

\* Jobs put so far whose task_done() has not been called
Unacknowledged == Len(queue) + Cardinality({w \in WorkerIds : Holding(w)})

\* C8: no failure of an attempt ends a tab: a tab that holds a Job is
\* loading, backing off or in its jitter sleep, never dead or cancelled; a
\* Job it is done loading has its Outcome recorded, a Job it still loads has
\* none; and the queue's count of unacknowledged Jobs is exact, so every
\* Job taken is acknowledged before the drain wait can return.
C8_FailuresStayInside ==
    /\ \A w \in WorkerIds :
          /\ Holding(w) <=> worker[w].pc \in {"load", "backoff", "sleep"}
          /\ worker[w].pc \in {"load", "backoff"} =>
                Occ(session_result, JobUrl(w)) = 0
          /\ worker[w].pc = "sleep" => Occ(session_result, JobUrl(w)) = 1
    /\ unfinished = Unacknowledged

\* A session returned although a load had failed in every attempt.
C8_Witness ==
    /\ Returned
    /\ unfinished = 0
    /\ \E i \in DOMAIN session_result : session_result[i].data = None

\* C9 as stated: once launched the browser is closed on every exit of
\* _create_session, and it is never closed while a Job put in the queue is
\* unacknowledged.
C9_ClosedOnExitNeverEarly ==
    /\ (spc = "closed" /\ browser # "none") => browser = "closed"
    /\ browser = "closed" => unfinished = 0

\* C9 amended: once launched the browser is closed on every exit of
\* _create_session; on a normal return it is closed only after every
\* address was put and every Job acknowledged.  (When an exception leaves
\* the enqueue loop or the drain wait, it is closed with Jobs outstanding.)
C9_ClosedOnExit ==
    /\ (spc = "closed" /\ browser # "none") => browser = "closed"
    /\ spc = "finally" => browser = "open"
    /\ (browser = "closed" /\ ~raised) =>
          /\ unfinished = 0
          /\ queue = <<>>
          /\ next_put = Len(urls) + 1
          /\ \A w \in WorkerIds : ~Holding(w)

\* An exception left the drain wait and the browser was closed all the same.
C9_Witness ==
    /\ spc = "closed"
    /\ raised
    /\ browser = "closed"
    /\ next_put = Len(urls) + 1
    /\ unfinished > 0

\* C10: if Stage A yields no items (an empty list, or absent after all
\* retries failed), no Stage B session is ever created and Products is empty.
C10_NoItemsNoStageB ==
    ~Truthy(stageA) =>
        /\ sessions["_product_parser"] = 0
        /\ products = <<>>
        /\ ppc \in {"start", "listing", "done", "aborted"}

\* start() returned after the listing load had failed in every attempt.
C10_Witness ==
    /\ ppc = "done"
    /\ sessions["_listing_parser"] = 1
    /\ stageA = None
    /\ session_result = <<Outcome(START_URL, None)>>

\* The page's Next control gives no page to go to: it is not visible, or it
\* is visible and has no href.
NoNextUrl(pg) == ~pg.visible \/ pg.href = 0

\* The pages of a listing source in the order of a walk from its first page
\* that goes on by the Next control's href and ends at the first page
\* without one.
Visit(chain) ==
    CHOOSE p \in UNION {[1..n -> DOMAIN chain] : n \in 1..Len(chain)} :
        /\ p[1] = 1
        /\ \A k \in 1..(Len(p) - 1) :
              ~NoNextUrl(chain[p[k]]) /\ p[k + 1] = chain[p[k]].href
        /\ NoNextUrl(chain[p[Len(p)]])

\* The batches of links of the pages p of a listing source, concatenated
RECURSIVE LinksOf(_, _)
LinksOf(chain, p) ==
    IF p = <<>> THEN <<>> ELSE chain[Head(p)].links \o LinksOf(chain, Tail(p))

\* Tab w, on a page of the listing source, ends its call of the listing
\* parser with a value in this step.
ParserReturnsNow(w) ==
    /\ parser = "_listing_parser"
    /\ worker[w].pc = "load"
    /\ worker'[w].pc = "sleep"

\* C11 as stated: the pagination walk ends only at a page that has no
\* visible next-page control.
C11_StopsOnlyWithoutVisibleNext ==
    [][\A w \in WorkerIds :
          ParserReturnsNow(w) => ~site[worker[w].at].visible]_vars

\* C11, amended: the pagination walk starts at the first page, leaves a
\* page for the one its next-page control leads to exactly when that control
\* is visible and carries an href, and ends at the first page where it is
\* not visible or carries none; what it returns is the concatenation, in
\* visit order, of the batches of the pages visited, each in page order.
C11_StopsWithoutNextUrl ==
    [][\A w \in WorkerIds :
          LET rec == worker[w]
              pg  == site[rec.at]
          IN  /\ (parser = "_listing_parser" /\ rec.pc # "load"
                    /\ worker'[w].pc = "load") =>
                    worker'[w].at = 1 /\ worker'[w].product_urls = <<>>
              /\ (parser = "_listing_parser" /\ rec.pc = "load"
                    /\ worker'[w].pc = "load" /\ worker'[w] # rec) =>
                    /\ ~NoNextUrl(pg)
                    /\ worker'[w].at = pg.href
                    /\ worker'[w].product_urls = rec.product_urls \o pg.links
              /\ ParserReturnsNow(w) =>
                    /\ NoNextUrl(pg)
                    /\ rec.at = Visit(site)[Len(Visit(site))]
                    /\ Appended(w, AsResult(LinksOf(site, Visit(site))))]_vars

\* A listing of three pages, the second without links: Stage A returned the
\* first page's link before the third page's.
C11_Witness ==
    /\ Len(site) = 3
    /\ sessions["_listing_parser"] = 1
    /\ Returned
    /\ session_result = <<Outcome(START_URL, Data(<<1, 2>>))>>

C13_QueueBounded ==
    [][/\ Len(queue) <= Min(Len(urls), WORKER_LIMIT)
       /\ Len(queue') <= Min(Len(urls'), WORKER_LIMIT)
       /\ (spc = "put" /\ next_put' > next_put) =>
             /\ Len(queue) < WORKER_LIMIT
             /\ queue' = Append(queue, <<next_put, Len(urls), urls[next_put]>>)
       /\ (spc = "put" /\ Len(queue) >= WORKER_LIMIT /\ ~raised') =>
             /\ spc' = "put"
             /\ next_put' = next_put
             /\ queue' = queue \/ queue' = Tail(queue)
       /\ \A w \in WorkerIds :
             (Running /\ worker[w].pc = "get" /\ queue = <<>> /\ Running') =>
                 worker'[w].pc = "get"]_vars

\* The enqueue loop is suspended on a full queue with an address left to
\* put, no tab having dequeued yet.
C13_Witness ==
    /\ spc = "put"
    /\ Len(urls) = 3
    /\ WORKER_LIMIT = 2
    /\ Len(queue) = WORKER_LIMIT
    /\ next_put = 3
    /\ \A w \in WorkerIds : worker[w].pc = "start"

\* Number of the requests made so far that _handle_requests decided as d
Decided(d) == Cardinality({i \in DOMAIN decisions : decisions[i] = d})

\* C14: every request a page sends out during a session gets one decision,
\* abort if its resource type is in EXCLUDED_RES and continue otherwise, so
\* the aborted requests of a trace number those of excluded types and the
\* continued ones the rest.
C14_FilterByType ==
    /\ Len(decisions) = Len(requests)
    /\ \A i \in DOMAIN requests :
          /\ decisions[i] \in {"abort", "continue"}
          /\ decisions[i] = "abort" <=> requests[i] \in EXCLUDED_RES
    /\ Decided("abort") =
          Cardinality({i \in DOMAIN requests : requests[i] \in EXCLUDED_RES})
    /\ Decided("continue") = Len(requests) - Decided("abort")

\* A trace of an image and a document with images excluded: one aborted, one
\* continued.
C14_Witness ==
    /\ EXCLUDED_RES = {"image"}
    /\ requests = <<"image", "document">>
    /\ decisions = <<"abort", "continue">>

\* Addresses that succeeded in one of the first n finished Stage B rounds
SucceededBy(n) == UNION {rounds[r].ok : r \in 1..n}

\* C15: fetch_products creates at most 3 sessions; the addresses of a round
\* after the first are exactly those whose Outcome was unsuccessful in the
\* round before, none that has succeeded; and after a round without an
\* unsuccessful address no session is created.
C15_RoundsOfFailures ==
    LET n == Len(rounds)
        b == sessions["_product_parser"]
    IN  /\ b <= 3
        /\ n <= b
        /\ ppc = "products" =>
              /\ b = n + 1
              /\ Cardinality({urls[i] : i \in DOMAIN urls}) = Len(urls)
              /\ n >= 1 =>
                    /\ {urls[i] : i \in DOMAIN urls} = rounds[n].bad
                    /\ rounds[n].bad # {}
                    /\ {urls[i] : i \in DOMAIN urls} \cap SucceededBy(n) = {}
        /\ (ppc = "done" /\ b > 0) => b = n
        /\ \A r \in 1..(n - 1) :
              /\ rounds[r + 1].ok \cup rounds[r + 1].bad = rounds[r].bad
              /\ rounds[r].bad # {}
        /\ (n >= 1 /\ rounds[n].bad = {}) => ppc = "done"

\* Three rounds: addresses 2 and 3 failed in the first, 3 failed again in
\* the second and succeeded in the third.
C15_Witness ==
    /\ ppc = "done"
    /\ Len(rounds) = 3
    /\ rounds[1] = [ok |-> {1}, bad |-> {2, 3}]
    /\ rounds[2] = [ok |-> {2}, bad |-> {3}]
    /\ rounds[3] = [ok |-> {3}, bad |-> {}]

\* Every tab the session spawned has ended by an error at its start.
AllDead ==
    /\ \E w \in WorkerIds : worker[w].pc = "dead"
    /\ \A w \in WorkerIds : worker[w].pc \in {"none", "dead"}

\* C16 as stated: once every tab of a session with an address has died at
\* its start, _create_session is in its enqueue loop or its drain wait, with
\* the browser open and no tab cancelled, and stays so.
C16_BlockedWhateverHappens ==
    (AllDead /\ urls # <<>>) =>
        /\ spc \in {"put", "join"}
        /\ browser = "open"
        /\ \A w \in WorkerIds : worker[w].pc # "cancelled"

\* C16, amended: once every tab of a session with an address has died at
\* its start, no Job is ever acknowledged and the drain wait cannot return:
\* the session returns no result and cancels no tab, and it stays in its
\* enqueue loop or drain wait with the browser open unless an exception is
\* thrown into it there (the task running start() is cancelled), which
\* alone takes it through the finally block that closes the browser.
C16_BlockedUnlessCancelled ==
    (AllDead /\ urls # <<>>) =>
        /\ session_result = <<>>
        /\ unfinished = next_put - 1
        /\ spc = "join" => unfinished >= 1
        /\ ~Returned
        /\ ppc # "done"
        /\ \A w \in WorkerIds : worker[w].pc # "cancelled"
        /\ ~raised => (spc \in {"put", "join"} /\ browser = "open")
        /\ raised => spc \in {"finally", "closed"}

\* Both tabs died at their start; the enqueue loop is suspended on the full
\* queue with an address left to put.
C16_Witness ==
    /\ AllDead
    /\ WORKER_LIMIT = 2
    /\ Len(urls) = 3
    /\ spc = "put"
    /\ Len(queue) = 2
    /\ ~raised

\* Tab w has come through its start-up and runs its loop.
Survives(w) == worker[w].pc \in {"get", "load", "backoff", "sleep"}

\* The session has drained, cancelled its tabs, closed the browser and
\* returned one Outcome for every address.
Drained ==
    /\ Returned
    /\ browser = "closed"
    /\ unfinished = 0
    /\ queue = <<>>
    /\ Len(session_result) = Len(urls)
    /\ \A i \in DOMAIN urls : dequeues[i] = 1
    /\ \A w \in WorkerIds : worker[w].pc \in {"none", "dead", "cancelled"}

\* C17: under fair scheduling, a session of which one tab has come through
\* its start-up, whatever became of the others, gets every Job dequeued,
\* recorded and acknowledged, leaves the drain wait, cancels its tabs, closes
\* the browser and returns, short of an exception thrown into it.
C17_SessionTerminates ==
    (Running /\ \E w \in WorkerIds : Survives(w)) ~> (Drained \/ raised)

\* A session of two addresses returned both Outcomes though one of its two
\* tabs had died at its start.
C17_Witness ==
    /\ Drained
    /\ Len(urls) = 2
    /\ \E w \in WorkerIds : worker[w].pc = "dead"
    /\ \E w \in WorkerIds : worker[w].pc = "cancelled"

\* The session's drain wait returns in this step and the tabs are cancelled.
Cancels == spc = "join" /\ spc' = "finally" /\ ~raised'

\* C18: a tab that has dequeued a Job loads it, then appends its Outcome,
\* then sleeps, then acknowledges it, in this order; so when the session
\* cancels its tabs every Job dequeued has its one Outcome recorded and every
\* tab is starting up or waiting to dequeue (or has died at its start): no
\* Job is abandoned and no Outcome lost.
C18_AcknowledgedLast ==
    [][/\ \A w \in WorkerIds :
             LET pc == worker[w].pc
                 to == worker'[w].pc
             IN  /\ (Running /\ Running' /\ pc # to) =>
                       \/ pc = "start" /\ to \in {"get", "dead"}
                       \/ pc = "get" /\ to = "load"
                       \/ pc = "load" /\ to \in {"backoff", "sleep"}
                       \/ pc = "backoff" /\ to \in {"load", "sleep"}
                       \/ pc = "sleep" /\ to = "get"
                 /\ (Running /\ pc # "sleep" /\ to = "sleep") =>
                       /\ Len(session_result') = Len(session_result) + 1
                       /\ session_result'[Len(session_result')].url = JobUrl(w)
                       /\ unfinished' = unfinished
                 /\ (Running /\ pc = "sleep" /\ to = "get") =>
                       /\ Occ(session_result, JobUrl(w)) = 1
                       /\ session_result' = session_result
                       /\ unfinished' = unfinished - 1
       /\ (Running /\ Running' /\ unfinished' < unfinished) =>
             \E w \in WorkerIds :
                 worker[w].pc = "sleep" /\ worker'[w].pc = "get"
       /\ Cancels =>
             /\ \A w \in WorkerIds :
                   /\ worker[w].pc \in {"none", "start", "get", "dead"}
                   /\ ~Holding(w)
             /\ \A i \in DOMAIN urls :
                   dequeues[i] >= 1 => Occ(session_result, urls[i]) = 1]_vars

\* The tabs have just been cancelled: two that were waiting to dequeue,
\* after the Outcomes of three addresses were recorded.
C18_Witness ==
    /\ spc = "finally"
    /\ ~raised
    /\ Len(urls) = 3
    /\ Len(session_result) = 3
    /\ \A w \in WorkerIds : worker[w].pc = "cancelled"

\* fetch_products reads the Outcomes of a finished round in this step.
RoundRead == ppc = "products" /\ Returned /\ rounds' # rounds

\* C19: an Outcome is marked successful exactly when the value _load_page
\* returned is present and non-empty; an empty value the parser returned
\* without raising is recorded at once, as it is and as unsuccessful, with
\* no further attempt though attempts remain; and Stage B carries its
\* address into the next round, or keeps the unsuccessful Outcome when it
\* was the last.
C19_EmptyIsFailure ==
    [][/\ \A i \in DOMAIN session_result :
             session_result[i].is_successful <=>
                 (session_result[i].data.present
                     /\ session_result[i].data.val # <<>>)
       /\ \A w \in WorkerIds :
             (Running /\ worker[w].pc = "load" /\ worker'[w].pc = "sleep") =>
                 LET o == session_result'[Len(session_result')]
                 IN  /\ session_result' = Append(session_result, o)
                     /\ o.url = JobUrl(w)
                     /\ o.data # None
                     /\ o.data = Empty => ~o.is_successful
       /\ \A w \in WorkerIds :
             (Running /\ worker[w].pc = "backoff" /\ worker'[w].pc = "sleep") =>
                 /\ worker[w].attempt = MAX_RETRIES
                 /\ Appended(w, None)
       /\ RoundRead =>
             \A i \in DOMAIN session_result :
                 session_result[i].data = Empty =>
                     /\ ppc' \in {"products", "done"}
                     /\ ppc' = "products" =>
                           \E j \in DOMAIN urls' :
                               urls'[j] = session_result[i].url
                     /\ ppc' = "done" =>
                           /\ remaining_retries = 0
                           /\ \E j \in DOMAIN products' :
                                 products'[j] = session_result[i]]_vars

\* The second round of Stage B fetched the one address left and its parser
\* returned an empty mapping: recorded unsuccessful after one attempt of
\* several allowed.
C19_Witness ==
    /\ parser = "_product_parser"
    /\ sessions["_product_parser"] = 2
    /\ MAX_RETRIES >= 2
    /\ urls = <<1>>
    /\ \E w \in WorkerIds :
          worker[w] = [NoWorker EXCEPT !.pc = "sleep", !.job = <<1, 1, 1>>]
    /\ session_result = <<[url |-> 1, is_successful |-> FALSE, data |-> Empty]>>

====
